---- MODULE Spec2Model ----
(***************************************************************************)
(* Decoy traffic subsystem of the Meson mix server                         *)
(* (src/internal/decoy/decoy.go): the SURB context store and its ETA index *)
(* (storeSURBCtx / loadAndDeleteSURBCtx / sweepSURBCtxs), the reply sink   *)
(* (OnPacket), the loop-packet builder (sendDecoyPacket / sendLoopPacket / *)
(* dispatchPacket) and the scheduler loop (worker).                        *)
(*                                                                         *)
(* Spec is the running program: the worker goroutine, concurrent OnPacket  *)
(* calls and the environment (PKI epoch, monotonic clock, timer expiry,    *)
(* halt).  SpecTLM drives the three                                        *)
(* operations of the mutex-protected store directly, the way a unit test   *)
(* of the type would.  SpecLive is Spec with the scheduling fairness of    *)
(* the Go runtime.                                                         *)
(***************************************************************************)
EXTENDS Integers, Sequences, FiniteSets, TLC

\* ------------------------------------------------------------------ bounds
MaxId == 2
MaxCtxs == 2
MaxTime == 1
MaxDeltaT == 1
MaxSlack == 0
MaxEpoch == 1
MaxDocs == 2
MaxDrops == 1
MaxBase == 1

\* decoy.go:51
maxAttempts == 3

Ids == 1..MaxId            \* values of the 64-bit SURB ID suffix
Refs == 1..MaxCtxs         \* addresses of allocated surbCtx objects
NilRef == 0                \* (*surbCtx)(nil)
NilNode == 0 - 1           \* (*avl.Node)(nil)

VARIABLES
    \* ---- decoy struct (decoy.go:63-77)
    ctxs,        \* heap of surbCtx objects: ref -> [id, eta, etaNode]
    surbStore,   \* map[uint64]*surbCtx
    surbETAs,    \* *avl.Tree, as the ascending sequence of its nodes
    \* ---- process
    panicked,    \* an unrecovered panic has killed the process
    nextRef,     \* next surbCtx allocation
    \* ---- environment
    clock,       \* monotime.Now()
    DecoySlack,  \* Config().Debug.DecoySlack
    SendDecoyTraffic, \* Config().Debug.SendDecoyTraffic
    IsProvider,  \* Config().Server.IsProvider
    epoch,       \* the epoch PKI().Now() reports
    halt,        \* HaltCh() is closed
    timer,       \* the worker's time.Timer: armed, fired (the expiry is in
                 \* timer.C), drained (the expiry was received) or stopped
    \* ---- decoy struct, continued
    surbIDBase,
    \* ---- worker goroutine (decoy.go:161-239) and the calls below it
    pc,          \* where the worker is
    timerFired,
    docCache,
    wakeInterval,
    cycle,       \* locals of sendLoopPacket: [surbID, ref, surbErr, sent]
    \* ---- prometheus counters (decoy.go:80-106)
    packetsDropped,
    ignoredPKIDocs,
    pkiDocs,
    \* ---- observation
    last,        \* SpecTLM: the last operation on the store and what it returned
    retired,     \* ref -> number of times it was returned by a load or counted by a sweep
    lastDrop,    \* the reason the debug log gives for the last dropped packet
    verdict      \* what became of the last snapshot received since the last timer fire

tlmVars == <<ctxs, surbStore, surbETAs, panicked, nextRef, clock, last, retired>>
cfgVars == <<DecoySlack, SendDecoyTraffic, IsProvider, surbIDBase>>
envVars == <<epoch, halt>>
workerVars == <<pc, timerFired, docCache, wakeInterval, cycle, timer>>
counterVars == <<packetsDropped, ignoredPKIDocs, pkiDocs>>
sysVars == <<envVars, workerVars, counterVars, lastDrop, verdict>>
vars == <<tlmVars, cfgVars, sysVars>>

\* ------------------------------------------------------------- Go helpers
\* Go map assignment m[k] = v and delete(m, k)
MapPut(m, k, v) == [x \in (DOMAIN m) \cup {k} |-> IF x = k THEN v ELSE m[x]]
MapDel(m, k) == [x \in (DOMAIN m) \ {k} |-> m[x]]

\* node.Value is an interface{}: a dynamic type and a value.
\* ListValue(l) is a []*surbCtx, NilCtxValue is a (*surbCtx)(nil).
ListValue(l) == [type |-> "list", list |-> l]
NilCtxValue == [type |-> "ctx", list |-> <<>>]

\* the decoy's store as one value
D == [ctxs |-> ctxs, surbStore |-> surbStore, surbETAs |-> surbETAs]

\* ------------------------------------------------------------ the ETA index
\* The comparator given to avl.New.  a and b are []*surbCtx.
cmpETA(h, a, b) ==
    LET etaA == h[a[1]].eta
        etaB == h[b[1]].eta
    IN  IF etaA < etaB THEN 0 - 1 ELSE IF etaA > etaB THEN 1 ELSE 0

\* A node is [key, Value]; key is the ETA the node was created under, which
\* fixes its place in the tree and stands for the node's address (the tree
\* never holds two nodes of one key).
NodeIdx(tree, key) == {i \in DOMAIN tree : tree[i].key = key}
HasNode(tree, key) == NodeIdx(tree, key) # {}
IdxOf(tree, key) == CHOOSE i \in DOMAIN tree : tree[i].key = key

\* nodes whose Value is no longer a []*surbCtx: the comparator's and the
\* callers' type assertion .([]*surbCtx) panics on them
BadNodes(tree) == {i \in DOMAIN tree : tree[i].Value.type # "list"}

\* avl.Tree.Insert(ctxList): a binary search from the root that calls the
\* comparator on every node it passes, returns the node that compares equal,
\* or links a new node.  onPath says whether the search passes a bad node
\* other than the root or the node of the key itself (it depends on the shape
\* of the tree, which is the library's).
avlInsert(h, tree, ctxList, onPath) ==
    LET eta == h[ctxList[1]].eta
        bad == BadNodes(tree)
        panics == /\ bad # {}
                  /\ \/ Len(tree) = 1
                     \/ \E i \in bad : tree[i].key = eta
                     \/ onPath
        equal == {i \in (DOMAIN tree) \ bad : cmpETA(h, ctxList, tree[i].Value.list) = 0}
        before == {i \in DOMAIN tree :
                      IF i \in bad THEN tree[i].key < eta
                      ELSE cmpETA(h, ctxList, tree[i].Value.list) > 0}
        n == Cardinality(before)
        new == [key |-> eta, Value |-> ListValue(ctxList)]
    IN  IF panics THEN [panic |-> TRUE, tree |-> tree, node |-> NilNode]
        ELSE IF equal # {} THEN [panic |-> FALSE, tree |-> tree,
                                 node |-> tree[CHOOSE i \in equal : TRUE].key]
        ELSE [panic |-> FALSE,
              tree |-> SubSeq(tree, 1, n) \o <<new>> \o SubSeq(tree, n + 1, Len(tree)),
              node |-> eta]

\* avl.Tree.Remove(node)
\* Remove that leaves the node in the tree
avlRemoveNothing(tree, key) == tree
avlRemove(tree, key) == SelectSeq(tree, LAMBDA nd : nd.key # key)

\* contexts the garbage collector keeps: those the map or a node list holds
Live(d) ==
    {d.surbStore[i] : i \in DOMAIN d.surbStore}
        \cup UNION {{nd.Value.list[j] : j \in DOMAIN nd.Value.list} :
                       nd \in {d.surbETAs[i] : i \in DOMAIN d.surbETAs}}
Collect(d) == [d EXCEPT !.ctxs = [r \in Live(d) |-> d.ctxs[r]]]

\* ctx := &surbCtx{id, eta, sprpKey} (decoy.go:320-324).  The key is not
\* kept: what a decryption under it gives comes with the reply.
NewCtx(d, ref, id, eta) ==
    [d EXCEPT !.ctxs = MapPut(d.ctxs, ref,
        [id |-> id, eta |-> eta, etaNode |-> NilNode])]

\* ------------------------------------------------------------ storeSURBCtx
storeSURBCtx(d, ref, onPath) ==
    LET ins == avlInsert(d.ctxs, d.surbETAs, <<ref>>, onPath)
    IN  IF ins.panic THEN [d |-> d, panic |-> TRUE]
        ELSE
        LET i == IdxOf(ins.tree, ins.node)
            nCtxList == ins.tree[i].Value.list
            tree2 == IF nCtxList[1] # ref
                     THEN [ins.tree EXCEPT ![i].Value = ListValue(Append(nCtxList, ref))]
                     ELSE ins.tree
        IN  [d |-> [ctxs |-> [d.ctxs EXCEPT ![ref].etaNode = ins.node],
                    surbETAs |-> tree2,
                    surbStore |-> MapPut(d.surbStore, d.ctxs[ref].id, ref)],
             panic |-> FALSE]

\* ---------------------------------------------------- loadAndDeleteSURBCtx
\* The node's Value after a context left a list of more than one:
\* decoy.go:437-439 assign nCtxList[l-1], which line 438 has just set to nil.
ValueAfterRemove(nCtxList, i) == NilCtxValue

\* the nil check of decoy.go:426 left out: ctx.etaNode dereferences nil
NotFoundDeref(d) == [d |-> d, ret |-> NilRef, panic |-> TRUE]
\* decoy.go:425-428: the map has no context for the id
NotFound(d) == [d |-> d, ret |-> NilRef, panic |-> FALSE]

loadAndDeleteSURBCtx(d, id) ==
    IF id \notin DOMAIN d.surbStore
    THEN NotFound(d)
    ELSE
    LET ref == d.surbStore[id]
        d1 == [d EXCEPT !.surbStore = MapDel(d.surbStore, id)]
        node == d.ctxs[ref].etaNode
        abort == [d |-> d1, ret |-> NilRef, panic |-> TRUE]
    IN  IF ~HasNode(d.surbETAs, node) THEN abort
        ELSE
        LET i == IdxOf(d.surbETAs, node)
            val == d.surbETAs[i].Value
        IN  IF val.type # "list" THEN abort         \* .([]*surbCtx) fails
            ELSE
            LET nCtxList == val.list
                l == Len(nCtxList)
                at == {j \in 1..l : nCtxList[j] = ref}
            IN  IF l > 1
                THEN IF at = {} THEN abort          \* "SURB missing from node ETA list"
                     ELSE LET j == CHOOSE j \in at : \A k \in at : j <= k
                          IN  [d |-> Collect([d1 EXCEPT
                                      !.surbETAs[i].Value = ValueAfterRemove(nCtxList, j),
                                      !.ctxs[ref].etaNode = NilNode]),
                               ret |-> ref, panic |-> FALSE]
                ELSE IF nCtxList[1] # ref THEN abort \* "SURB mismatch in node ETA list"
                ELSE [d |-> Collect([d1 EXCEPT
                            !.surbETAs = avlRemove(d.surbETAs, node),
                            !.ctxs[ref].etaNode = NilNode]),
                      ret |-> ref, panic |-> FALSE]

\* ------------------------------------------------------------ sweepSURBCtxs
RECURSIVE DelIds(_, _, _)
DelIds(h, store, list) ==
    IF list = <<>> THEN store
    ELSE DelIds(h, MapDel(store, h[Head(list)].id), Tail(list))

\* the loop of decoy.go:469-482 from the first node of the (remaining) tree;
\* swept is the sequence of contexts counted so far
RECURSIVE SweepFrom(_, _, _, _)
SweepFrom(d, now, slack, swept) ==
    IF d.surbETAs = <<>> THEN [d |-> d, swept |-> swept, panic |-> FALSE]
    ELSE
    LET node == Head(d.surbETAs)
    IN  IF node.Value.type # "list"                  \* .([]*surbCtx) fails
        THEN [d |-> d, swept |-> swept, panic |-> TRUE]
        ELSE
        LET surbCtxs == node.Value.list
        IN  IF d.ctxs[surbCtxs[1]].eta + slack > now
            THEN [d |-> d, swept |-> swept, panic |-> FALSE]
            ELSE SweepFrom([d EXCEPT
                               !.surbStore = DelIds(d.ctxs, d.surbStore, surbCtxs),
                               !.surbETAs = Tail(d.surbETAs)],
                           now, slack, swept \o surbCtxs)

sweepSURBCtxs(d, now, slack) ==
    IF Len(d.surbETAs) = 0
    THEN [d |-> d, swept |-> <<>>, panic |-> FALSE]
    ELSE LET r == SweepFrom(d, now, slack, <<>>)
         IN  [r EXCEPT !.d = Collect(r.d)]

\* ------------------------------------------------------------------- views
Range(s) == {s[i] : i \in DOMAIN s}
StoreIds == DOMAIN surbStore
IndexRefs == UNION {Range(surbETAs[i].Value.list) : i \in DOMAIN surbETAs}
IndexIds == {ctxs[r].id : r \in IndexRefs}
Bump(f, refs) == [r \in DOMAIN f |->
                     f[r] + Cardinality({j \in DOMAIN refs : refs[j] = r})]

\* ------------------------------------------------------- values and inputs
Epochs == 0..MaxEpoch
\* a pkicache.Entry: the epoch of its document and whether a provider of the
\* document advertises the loop service with a string endpoint
Entries == [epoch : Epochs, hasLoop : BOOLEAN]
NoDoc == [epoch |-> 0 - 1, hasLoop |-> FALSE]       \* docCache == nil
NoCycle == [surbID |-> <<>>, ref |-> NilRef, surbErr |-> FALSE, sent |-> FALSE]

\* -------------------------------------------------------------------- Init
Init ==
    /\ ctxs = <<>>
    /\ surbStore = <<>>
    /\ surbETAs = <<>>
    /\ panicked = FALSE
    /\ nextRef = 1
    /\ clock = 0
    /\ DecoySlack \in 0..MaxSlack
    /\ last = [op |-> "none"]
    /\ retired = [r \in Refs |-> 0]
    /\ SendDecoyTraffic \in BOOLEAN
    /\ IsProvider \in BOOLEAN
    /\ surbIDBase \in 1..MaxBase
    /\ epoch = 0
    /\ halt = FALSE
    /\ timer = "armed"
    /\ pc = "select"
    /\ timerFired = FALSE
    /\ docCache = NoDoc
    /\ wakeInterval = "max"
    /\ cycle = NoCycle
    /\ packetsDropped = 0
    /\ ignoredPKIDocs = 0
    /\ pkiDocs = [e \in Epochs |-> 0]
    /\ lastDrop = "none"
    /\ verdict = "none"

\* --------------------------------------------- the store driven directly
TStore(id, deltaT, onPath) ==
    /\ ~panicked
    /\ nextRef <= MaxCtxs
    /\ id \notin DOMAIN surbStore
    /\ LET r == storeSURBCtx(NewCtx(D, nextRef, id, clock + deltaT), nextRef, onPath)
           d == Collect(r.d)
       IN  /\ ctxs' = d.ctxs
           /\ surbStore' = d.surbStore
           /\ surbETAs' = d.surbETAs
           /\ panicked' = r.panic
           /\ last' = [op |-> "store", id |-> id, ref |-> nextRef,
                       eta |-> clock + deltaT, panic |-> r.panic]
    /\ nextRef' = nextRef + 1
    /\ UNCHANGED <<clock, retired, cfgVars, sysVars>>

TTake(id) ==
    /\ ~panicked
    /\ LET r == loadAndDeleteSURBCtx(D, id)
       IN  /\ ctxs' = r.d.ctxs
           /\ surbStore' = r.d.surbStore
           /\ surbETAs' = r.d.surbETAs
           /\ panicked' = r.panic
           /\ last' = [op |-> "take", id |-> id, ret |-> r.ret, panic |-> r.panic]
           /\ retired' = IF r.ret = NilRef THEN retired
                         ELSE [retired EXCEPT ![r.ret] = @ + 1]
    /\ UNCHANGED <<nextRef, clock, cfgVars, sysVars>>

TSweep ==
    /\ ~panicked
    /\ LET r == sweepSURBCtxs(D, clock, DecoySlack)
       IN  /\ ctxs' = r.d.ctxs
           /\ surbStore' = r.d.surbStore
           /\ surbETAs' = r.d.surbETAs
           /\ panicked' = r.panic
           /\ last' = [op |-> "sweep", now |-> clock, swept |-> r.swept,
                       panic |-> r.panic]
           /\ retired' = Bump(retired, r.swept)
    /\ UNCHANGED <<nextRef, clock, cfgVars, sysVars>>

Tick ==
    /\ ~panicked
    /\ clock < MaxTime
    /\ clock' = clock + 1
    /\ UNCHANGED <<ctxs, surbStore, surbETAs, panicked, nextRef, retired, last,
                   cfgVars, sysVars>>

NextTLM ==
    \/ \E id \in Ids, deltaT \in 0..MaxDeltaT, onPath \in BOOLEAN : TStore(id, deltaT, onPath)
    \/ \E id \in Ids : TTake(id)
    \/ TSweep
    \/ Tick

InitTLM == Init /\ SendDecoyTraffic /\ ~IsProvider

SpecTLM == InitTLM /\ [][NextTLM]_vars

\* ============================================================ the program

\* ---- SURB IDs (sConstants.SURBIDLength = 16 bytes), encoding/binary
\* the n low-order bytes of v, most significant first
RECURSIVE BytesOf(_, _)
BytesOf(v, n) == IF n = 0 THEN <<>> ELSE Append(BytesOf(v \div 256, n - 1), v % 256)
\* binary.BigEndian.PutUint64 and binary.BigEndian.Uint64
PutUint64(v) == BytesOf(v, 8)
RECURSIVE Uint64(_)
Uint64(b) == IF b = <<>> THEN 0
             ELSE Uint64(SubSeq(b, 1, Len(b) - 1)) * 256 + b[Len(b)]

\* makeSURBID: the ID base, then the value drawn from d.rng
makeSURBID(base, r) == PutUint64(base) \o PutUint64(r)

\* d.recipient: the random recipient ID drawn in New
recipient == "self"

\* decoy.go:135: the two halves of pkt.SurbReply.ID
ParseSURBID(ID) == [idBase |-> Uint64(SubSeq(ID, 1, 8)), id |-> Uint64(SubSeq(ID, 9, 16))]

\* the SURB IDs inbound replies carry: well-formed ones for every base and
\* suffix, and IDs that differ from a well-formed one in a high byte of the
\* base or of the suffix
ReplyIDs ==
    {makeSURBID(b, i) : b \in 0..MaxBase, i \in Ids}
        \cup {[makeSURBID(b, 1) EXCEPT ![5] = 1] : b \in 1..MaxBase}
        \cup {[makeSURBID(b, 1) EXCEPT ![13] = 1] : b \in 1..MaxBase}
\* the replies: to this recipient with every ID, and to another one
Packets ==
    [recipient : {"self"}, ID : ReplyIDs, payloadOk : BOOLEAN]
        \cup [recipient : {"other"}, ID : {makeSURBID(b, 1) : b \in 0..MaxBase},
              payloadOk : {TRUE}]
\* ParseSURBID over the inputs, evaluated once
ParsedIDs == [ID \in ReplyIDs |-> ParseSURBID(ID)]

\* sphinx.DecryptSURBPayload(pkt.Payload, ctx.sprpKey): the payload
\* authenticates under the key of the context or it does not (it never does
\* under the nil key a failed NewSURB leaves)
DecryptSURBPayload(payloadOk) == payloadOk

SetStore(d) ==
    /\ ctxs' = d.ctxs
    /\ surbStore' = d.surbStore
    /\ surbETAs' = d.surbETAs

\* the comparison of decoy.go:136 left out
BaseMatchesAny(idBase, base) == TRUE
\* decoy.go:136: the ID base of the reply is this instance's
BaseMatches(idBase, base) == idBase = base

\* ---- OnPacket (decoy.go:118-159).  The caller hands it SURB replies only.
\* The drops are bounded by MaxDrops.
OnPacket(pkt) ==
    /\ ~panicked
    /\ LET idBase == ParsedIDs[pkt.ID].idBase
           id == ParsedIDs[pkt.ID].id
           r == loadAndDeleteSURBCtx(D, id)
           Drop(why) == /\ packetsDropped < MaxDrops
                        /\ packetsDropped' = packetsDropped + 1
                        /\ lastDrop' = why
       IN  IF pkt.recipient # recipient
           THEN /\ Drop("Invalid recipient")
                /\ UNCHANGED <<ctxs, surbStore, surbETAs, panicked, retired>>
           ELSE IF ~BaseMatches(idBase, surbIDBase)
           THEN /\ Drop("Invalid SURB ID base")
                /\ UNCHANGED <<ctxs, surbStore, surbETAs, panicked, retired>>
           ELSE /\ SetStore(r.d)
                /\ panicked' = r.panic
                /\ retired' = IF r.ret = NilRef THEN retired
                              ELSE [retired EXCEPT ![r.ret] = @ + 1]
                /\ IF r.panic THEN UNCHANGED <<packetsDropped, lastDrop>>
                   ELSE IF r.ret = NilRef THEN Drop("Unknown SURB ID")
                   ELSE IF ~DecryptSURBPayload(pkt.payloadOk)
                   THEN Drop("decrypt")
                   ELSE UNCHANGED <<packetsDropped, lastDrop>>
    /\ UNCHANGED <<nextRef, clock, last, cfgVars, envVars, workerVars,
                   ignoredPKIDocs, pkiDocs, verdict>>

\* ---- worker (decoy.go:161-239)
\* select, case <-d.HaltCh(): return, and the deferred timer.Stop()
workerHalt ==
    /\ ~panicked
    /\ pc = "select"
    /\ halt
    /\ pc' = "done"
    /\ timer' = "stopped"
    /\ UNCHANGED <<ctxs, surbStore, surbETAs, panicked, nextRef, clock, retired, last,
                   cfgVars, envVars, timerFired, docCache, wakeInterval, cycle,
                   counterVars, lastDrop, verdict>>

\* f[0] + ... + f[n]
RECURSIVE SumTo(_, _)
SumTo(f, n) == IF n < 0 THEN 0 ELSE f[n] + SumTo(f, n - 1)

\* a provider's documents taken like any other
NotProviderUnchecked(isProvider) == TRUE
\* decoy.go:195-199: the document is ignored when the node is a provider
NotProvider(isProvider) == ~isProvider

\* the checks without the comparison of the epochs (decoy.go:191)
DocAcceptedAnyEpoch(ent, err) ==
    /\ SendDecoyTraffic
    /\ ~err
    /\ ~IsProvider
\* the four checks of decoy.go:179-200; err is the error of PKI().Now()
DocAccepted(ent, err) ==
    /\ SendDecoyTraffic
    /\ ~err
    /\ ent.epoch = epoch
    /\ NotProvider(IsProvider)

\* select, case newEnt := <-d.docCh (OnNewDocument is the sender)
workerNewDoc(ent, err) ==
    /\ ~panicked
    /\ pc = "select"
    /\ ignoredPKIDocs + SumTo(pkiDocs, MaxEpoch) < MaxDocs
    /\ IF DocAccepted(ent, err)
       THEN /\ pkiDocs' = [pkiDocs EXCEPT ![epoch] = @ + 1]
            /\ docCache' = ent
            /\ pc' = "now"
            /\ verdict' = "accepted"
            /\ UNCHANGED ignoredPKIDocs
       ELSE /\ ignoredPKIDocs' = ignoredPKIDocs + 1
            /\ verdict' = IF SendDecoyTraffic /\ ~err /\ ent.epoch # epoch
                          THEN "stale" ELSE "ignored"
            /\ UNCHANGED <<pkiDocs, docCache, pc>>
    /\ timerFired' = FALSE
    /\ UNCHANGED <<ctxs, surbStore, surbETAs, panicked, nextRef, clock, retired, last,
                   cfgVars, envVars, wakeInterval, cycle, timer,
                   packetsDropped, lastDrop>>

\* select, case <-timer.C
workerTimerFired ==
    /\ ~panicked
    /\ pc = "select"
    /\ timer \in {"fired", "stale"}
    /\ timer' = IF timer = "stale" THEN "armed" ELSE "drained"
    /\ timerFired' = TRUE
    /\ pc' = "now"
    /\ UNCHANGED <<ctxs, surbStore, surbETAs, panicked, nextRef, clock, retired, last,
                   cfgVars, envVars, docCache, wakeInterval, cycle,
                   counterVars, lastDrop, verdict>>

\* the condition without the comparison of the epochs
ValidDocAnyEpoch(err, cache, now) == ~err /\ cache # NoDoc
\* decoy.go:209, negated: there is a cached document for the epoch now
ValidDoc(err, cache, now) == ~err /\ cache # NoDoc /\ cache.epoch = now

\* sendDecoyPacket called without looking at timerFired
AfterValidAlwaysSend(fired) == "send"
\* decoy.go:213-216: with a valid document sendDecoyPacket is called only if
\* the timer fired; otherwise the iteration goes on at the interval draw
AfterValid(fired) == IF fired THEN "send" ELSE "sweep"

\* decoy.go:208-216: the second PKI().Now() and the choice of branch
workerNow(err) ==
    /\ ~panicked
    /\ pc = "now"
    /\ IF ~ValidDoc(err, docCache, epoch)
       THEN /\ wakeInterval' = "max"
            /\ pc' = "rearm"
       ELSE /\ pc' = AfterValid(timerFired)
            /\ UNCHANGED wakeInterval
    /\ UNCHANGED <<ctxs, surbStore, surbETAs, panicked, nextRef, clock, retired, last,
                   cfgVars, envVars, timerFired, docCache, cycle, timer,
                   counterVars, lastDrop, verdict>>

\* the packet dispatched before its context is stored
NextInLoopPacketDispatchFirst(step) ==
    CASE step = "path" -> "packet"
      [] step = "packet" -> "store"
      [] step = "store" -> "sweep"
\* the order of the steps of sendLoopPacket once a path pair is acceptable
\* (decoy.go:305-338): storeSURBCtx, then NewPacket and dispatchPacket, then
\* the return into worker, which goes on to the sweep
NextInLoopPacket(step) ==
    CASE step = "path" -> "store"
      [] step = "store" -> "packet"
      [] step = "packet" -> "sweep"

\* the attempts loop of sendLoopPacket (decoy.go:290-305, 342) over the
\* outcomes of its successive path selections: path.New fails for the
\* forward or the reverse path ("fwdErr", "revErr": return), the pair is too
\* slow ("slow": next attempt) or it is acceptable ("ok").  The result is
\* what the function does next.
RECURSIVE sendLoopPacketPaths(_, _)
sendLoopPacketPaths(outcomes, attempts) ==
    IF ~(attempts < maxAttempts) THEN "sweep"       \* errMaxAttempts
    ELSE LET o == outcomes[attempts + 1]
         IN  IF o \in {"fwdErr", "revErr"} THEN "sweep"
             ELSE IF o = "ok" THEN NextInLoopPacket("path")
             ELSE sendLoopPacketPaths(outcomes, attempts + 1)

PathOutcomes == [1..maxAttempts -> {"fwdErr", "revErr", "slow", "ok"}]

\* sendDecoyPacket (decoy.go:241-284), makeSURBID and the attempts loop of
\* sendLoopPacket: none of them touches state shared with another goroutine.
\* pkicache gives Self() the layer the node is configured for, so
\* selfDesc.Layer is LayerProvider exactly when IsProvider.  r is the value
\* d.rng.Uint64() returns.
sendDecoyPacket(r, outcomes) ==
    /\ ~panicked
    /\ pc = "send"
    /\ IF IsProvider
       THEN /\ panicked' = TRUE
            /\ UNCHANGED <<pc, cycle>>
       ELSE IF ~docCache.hasLoop
       THEN /\ pc' = "sweep"                 \* "Failed to find suitable provider"
            /\ UNCHANGED <<panicked, cycle>>
       ELSE /\ cycle' = [surbID |-> makeSURBID(surbIDBase, r),
                         ref |-> NilRef, surbErr |-> FALSE, sent |-> FALSE]
            /\ pc' = sendLoopPacketPaths(outcomes, 0)
            /\ (pc' # "sweep") => nextRef <= MaxCtxs
            /\ UNCHANGED panicked
    /\ verdict' = "none"
    /\ UNCHANGED <<ctxs, surbStore, surbETAs, nextRef, clock, retired, last,
                   cfgVars, envVars, timerFired, docCache, wakeInterval, timer,
                   counterVars, lastDrop>>

\* decoy.go:310-325: NewSURB (whose error is logged and not returned on), the
\* new context and storeSURBCtx
sendLoopPacketStore(deltaT, surbErr, onPath) ==
    /\ ~panicked
    /\ pc = "store"
    /\ nextRef <= MaxCtxs
    /\ LET id == ParsedIDs[cycle.surbID].id     \* binary.BigEndian.Uint64(surbID[8:])
           r == storeSURBCtx(NewCtx(D, nextRef, id, clock + deltaT), nextRef, onPath)
       IN  /\ SetStore(Collect(r.d))
           /\ panicked' = r.panic
           /\ cycle' = IF r.panic THEN cycle
                       ELSE [cycle EXCEPT !.ref = nextRef, !.surbErr = surbErr]
           /\ pc' = IF r.panic THEN pc ELSE NextInLoopPacket("store")
    /\ nextRef' = nextRef + 1
    /\ UNCHANGED <<clock, retired, last, cfgVars, envVars, timerFired, docCache,
                   wakeInterval, timer, counterVars, lastDrop, verdict>>

\* decoy.go:327-338 and dispatchPacket (372-384): sphinx.NewPacket or
\* packet.New fail, or the packet goes to Connector().DispatchPacket
dispatchPacket(outcome) ==
    /\ ~panicked
    /\ pc = "packet"
    /\ IF outcome = "newPacketErr"
       THEN /\ pc' = "sweep"
            /\ UNCHANGED cycle
       ELSE /\ pc' = NextInLoopPacket("packet")
            /\ cycle' = [cycle EXCEPT !.sent = (outcome = "ok")]
    /\ UNCHANGED <<ctxs, surbStore, surbETAs, panicked, nextRef, clock, retired, last,
                   cfgVars, envVars, timerFired, docCache, wakeInterval,
                   timer, counterVars, lastDrop, verdict>>

\* decoy.go:224-232: the next wake interval, then sweepSURBCtxs
workerSweep ==
    /\ ~panicked
    /\ pc = "sweep"
    /\ wakeInterval' = "finite"
    /\ LET r == sweepSURBCtxs(D, clock, DecoySlack)
       IN  /\ SetStore(r.d)
           /\ panicked' = r.panic
           /\ retired' = Bump(retired, r.swept)
           /\ pc' = IF r.panic THEN pc ELSE "rearm"
    /\ cycle' = NoCycle
    /\ UNCHANGED <<nextRef, clock, last, cfgVars, envVars, timerFired, docCache,
                   timer, counterVars, lastDrop, verdict>>

\* the drain without the test of timerFired
DrainNeededUnguarded(fired, t) == t \notin {"armed", "stale"}
\* decoy.go:234: !timerFired && !timer.Stop().  Stop returns true exactly
\* when it stopped a timer that was still pending.
DrainNeeded(fired, t) == ~fired /\ t \notin {"armed", "stale"}

\* decoy.go:235: <-timer.C has a value to receive only if the timer expired
\* and nothing received the expiry since
DrainBlocks(fired, t) == DrainNeeded(fired, t) /\ t # "fired"

\* decoy.go:237: timer.Reset arms the timer; an expiry that is still in
\* timer.C stays there ("stale")
AfterReset(fired, t) ==
    IF t \in {"fired", "stale"} /\ ~DrainNeeded(fired, t) THEN "stale" ELSE "armed"

\* decoy.go:234-237: stop the timer, drain its channel if it had expired and
\* the select did not take the value, and reset it.  The receive blocks when
\* the channel is empty.
workerRearm ==
    /\ ~panicked
    /\ pc = "rearm"
    /\ ~DrainBlocks(timerFired, timer)
    /\ timer' = AfterReset(timerFired, timer)
    /\ timerFired' = FALSE
    /\ verdict' = IF timerFired THEN "none" ELSE verdict
    /\ pc' = "select"
    /\ UNCHANGED <<ctxs, surbStore, surbETAs, panicked, nextRef, clock, retired, last,
                   cfgVars, envVars, docCache, wakeInterval, cycle,
                   counterVars, lastDrop>>

\* ---- environment
\* the runtime sends on timer.C when the interval has passed
TimerExpire ==
    /\ ~panicked
    /\ timer = "armed"
    /\ timer' = "fired"
    /\ UNCHANGED <<tlmVars, cfgVars, envVars, pc, timerFired, docCache,
                   wakeInterval, cycle, counterVars, lastDrop, verdict>>

EpochTick ==
    /\ ~panicked
    /\ epoch < MaxEpoch
    /\ epoch' = epoch + 1
    /\ UNCHANGED <<tlmVars, cfgVars, halt, workerVars, counterVars, lastDrop, verdict>>

\* worker.Halt() closes HaltCh
Halt ==
    /\ ~panicked
    /\ ~halt
    /\ halt' = TRUE
    /\ UNCHANGED <<tlmVars, cfgVars, epoch, workerVars, counterVars, lastDrop, verdict>>

WorkerStep ==
    \/ workerHalt
    \/ \E ent \in Entries, err \in BOOLEAN : workerNewDoc(ent, err)
    \/ workerTimerFired
    \/ \E err \in BOOLEAN : workerNow(err)
    \/ \E r \in Ids, outcomes \in PathOutcomes : sendDecoyPacket(r, outcomes)
    \/ \E deltaT \in 1..MaxDeltaT, surbErr \in BOOLEAN, onPath \in BOOLEAN :
          sendLoopPacketStore(deltaT, surbErr, onPath)
    \/ \E outcome \in {"newPacketErr", "allocErr", "ok"} : dispatchPacket(outcome)
    \/ workerSweep
    \/ workerRearm

Next ==
    \/ WorkerStep
    \/ \E pkt \in Packets : OnPacket(pkt)
    \/ Tick
    \/ EpochTick
    \/ TimerExpire
    \/ Halt

Spec == Init /\ [][Next]_vars

\* The goroutine runs whenever it can (every step of its own but the receive
\* of a document, which needs a sender), and a select that is entered again
\* and again with HaltCh closed takes that case in the end: Go chooses among
\* the ready cases of a select uniformly at random.
WorkerRuns ==
    \/ workerHalt
    \/ workerTimerFired
    \/ \E err \in BOOLEAN : workerNow(err)
    \/ \E r \in Ids, outcomes \in PathOutcomes : sendDecoyPacket(r, outcomes)
    \/ \E deltaT \in 1..MaxDeltaT, surbErr \in BOOLEAN, onPath \in BOOLEAN :
          sendLoopPacketStore(deltaT, surbErr, onPath)
    \/ \E outcome \in {"newPacketErr", "allocErr", "ok"} : dispatchPacket(outcome)
    \/ workerSweep
    \/ workerRearm

\* A timer armed with a finite interval expires: the runtime sends on
\* timer.C once the interval has passed.  The interval of suspension
\* (math.MaxInt64 ns, decoy.go:165-167, 211) does not pass.
FiniteTimerExpires == TimerExpire /\ wakeInterval = "finite"

SpecLive ==
    Spec /\ WF_vars(WorkerRuns) /\ SF_vars(workerHalt) /\ WF_vars(FiniteTimerExpires)


\* ======================================================= claims, SpecTLM

\* a stored context and the node its handle names
StoredRefs == {surbStore[i] : i \in DOMAIN surbStore}
NodeOf(r) == surbETAs[IdxOf(surbETAs, ctxs[r].etaNode)]
\* r belongs to an ETA collision group: the node it was stored under holds
\* (or, once its Value is no list any more, held) more than one context
InGroup(r) ==
    /\ HasNode(surbETAs, ctxs[r].etaNode)
    /\ \/ NodeOf(r).Value.type # "list"
       \/ Len(NodeOf(r).Value.list) > 1

\* the step is the operation op of the Token Lifecycle Manager
Did(op) == last' # last /\ last'.op = op

\* C1 (P1, lifecycle bijection): whenever the process is alive and no
\* operation is in progress, the ids in surbStore are exactly the ids of the
\* contexts reachable by iterating the node groups of surbETAs.
C1_Bijection == ~panicked => StoreIds = IndexIds

\* C2 (P2, ETA collision grouping): two stored contexts with distinct ids and
\* the same eta sit in the group of one single node; a takeById of a context
\* of such a group returns that context; and a sweep whose horizon covers the
\* eta removes the whole group from the store in that one call.
C2_OneNode ==
    \A r1, r2 \in StoredRefs :
        (r1 # r2 /\ ctxs[r1].eta = ctxs[r2].eta) =>
            /\ Cardinality(NodeIdx(surbETAs, ctxs[r1].eta)) = 1
            /\ {r1, r2} \subseteq IndexRefs
            /\ ctxs[r1].etaNode = ctxs[r2].etaNode
C2_TakeStep ==
    \A id \in StoreIds :
        (InGroup(surbStore[id]) /\ Did("take") /\ last'.id = id) =>
            (~panicked' /\ last'.ret = surbStore[id])
C2_SweepStep ==
    \A id \in StoreIds :
        (/\ InGroup(surbStore[id])
         /\ Did("sweep")
         /\ ctxs[surbStore[id]].eta + DecoySlack <= clock) =>
            (~panicked' /\ id \notin DOMAIN surbStore'
                        /\ surbStore[id] \in Range(last'.swept))
C2_Grouping == [](~panicked => C2_OneNode) /\ [][C2_TakeStep /\ C2_SweepStep]_vars

\* C3 (P3, sweep monotonicity): a sweep at time now with slack removes (and
\* counts once) every stored entry with eta + slack <= now, keeps every
\* stored entry with eta + slack > now, and counts no context that an earlier
\* sweep or takeById already retired.
C3_SweepStep ==
    Did("sweep") =>
        /\ ~panicked'
        /\ \A id \in StoreIds :
              LET r == surbStore[id]
              IN  IF ctxs[r].eta + DecoySlack <= clock
                  THEN /\ id \notin DOMAIN surbStore'
                       /\ Cardinality({j \in DOMAIN last'.swept : last'.swept[j] = r}) = 1
                  ELSE /\ id \in DOMAIN surbStore'
                       /\ surbStore'[id] = r
                       /\ r \notin Range(last'.swept)
        /\ \A r \in Range(last'.swept) : retired[r] = 0
C3_SweepMonotone == [][C3_SweepStep]_vars

\* C5 (P5, retire-once): takeById of a stored id returns its context, and a
\* takeById of the same id directly after it returns "not found".
C5_TakeStep ==
    /\ (Did("take") /\ last'.id \in StoreIds) =>
           (~panicked' /\ last'.ret = surbStore[last'.id])
    /\ (last.op = "take" /\ Did("take") /\ last'.id = last.id
            /\ last.ret # NilRef) =>
           (~panicked' /\ last'.ret = NilRef)
C5_RetireOnce == [][C5_TakeStep]_vars

\* C12 (group removal): a takeById of a context whose node group holds k > 1
\* contexts leaves the node in surbETAs with exactly the other k-1 contexts
\* as its group; with k = 1 the node leaves surbETAs; so every node of
\* surbETAs has a group, and the group is never empty.
C12_GroupNonEmpty ==
    \A i \in DOMAIN surbETAs :
        /\ surbETAs[i].Value.type = "list"
        /\ surbETAs[i].Value.list # <<>>
C12_TakeStep ==
    \A id \in StoreIds :
        LET r == surbStore[id]
            key == ctxs[r].etaNode
            group == Range(NodeOf(r).Value.list)
        IN  (Did("take") /\ last'.id = id /\ HasNode(surbETAs, key)) =>
                IF Cardinality(group) > 1
                THEN /\ HasNode(surbETAs', key)
                     /\ surbETAs'[IdxOf(surbETAs', key)].Value.type = "list"
                     /\ Range(surbETAs'[IdxOf(surbETAs', key)].Value.list)
                            = group \ {r}
                ELSE ~HasNode(surbETAs', key)
C12_GroupRemoval == []C12_GroupNonEmpty /\ [][C12_TakeStep]_vars

\* C7: no sequence of store (of a context not currently stored), takeById
\* and sweep operations reaches a panic.
C7_NoPanic == ~panicked

\* ========================================================== claims, Spec

\* C4 (P6, insert-before-dispatch): when the loop packet of a cycle is about
\* to be built and handed to the connector, and when it has been handed over,
\* the context of that cycle has been stored: it is in surbStore, unless a
\* reply or a sweep has retired it since or the process has died on taking it.
C4_InsertBeforeDispatch ==
    (pc = "packet" \/ cycle.sent) =>
        /\ cycle.ref # NilRef
        /\ cycle.ref \in StoredRefs \/ retired[cycle.ref] > 0 \/ panicked
C4_Dispatched == cycle.sent /\ cycle.ref \in StoredRefs /\ ~panicked

\* C6 (P4, token-base rejection): OnPacket of a reply whose ID holds a base
\* other than surbIDBase drops it (packetsDropped goes up by one) before the
\* call of loadAndDeleteSURBCtx, whose every outcome (a context retired, the
\* drop of an unknown ID, a panic) is absent, and leaves surbStore, surbETAs
\* and the contexts as they are.
C6_DropStep ==
    \A pkt \in Packets :
        (ParsedIDs[pkt.ID].idBase # surbIDBase /\ OnPacket(pkt)) =>
            /\ packetsDropped' = packetsDropped + 1
            /\ lastDrop' \in {"Invalid recipient", "Invalid SURB ID base"}
            /\ UNCHANGED <<ctxs, surbStore, surbETAs, retired, panicked>>
C6_BaseRejection == [][C6_DropStep]_vars
C6_Rejected ==
    /\ lastDrop = "Invalid SURB ID base"
    /\ packetsDropped = 1
    /\ surbStore # <<>>

\* C11 (Scenario E): OnPacket of a reply for this recipient, with the ID base
\* of this instance and an id surbStore does not hold, drops it:
\* packetsDropped goes up by exactly one (the drop of an unknown SURB ID),
\* surbStore, surbETAs and the contexts stay as they are, nothing is retired
\* and the process lives.
C11_UnknownStep ==
    \A pkt \in Packets :
        (/\ pkt.recipient = recipient
         /\ ParsedIDs[pkt.ID].idBase = surbIDBase
         /\ ParsedIDs[pkt.ID].id \notin StoreIds
         /\ OnPacket(pkt)) =>
            /\ packetsDropped' = packetsDropped + 1
            /\ lastDrop' = "Unknown SURB ID"
            /\ UNCHANGED <<ctxs, surbStore, surbETAs, retired, panicked>>
C11_UnknownIdDropped == [][C11_UnknownStep]_vars
C11_UnknownDropped ==
    /\ lastDrop = "Unknown SURB ID"
    /\ packetsDropped = 1
    /\ surbStore # <<>>
    /\ ~panicked

\* C13 (ids never reused while outstanding): the id that makeSURBID issued
\* and storeSURBCtx records differs from the id of every context still
\* stored: a store never overwrites a mapping of surbStore, and no two
\* contexts held in the groups of surbETAs share an id.
C13_DistinctIds ==
    \A r1, r2 \in IndexRefs : (r1 # r2) => (ctxs[r1].id # ctxs[r2].id)
C13_StoreStep ==
    (pc = "store" /\ pc' # pc) => (ParsedIDs[cycle.surbID].id \notin StoreIds)
C13_IdsNeverReused == []C13_DistinctIds /\ [][C13_StoreStep]_vars

\* C14 (retired at most once): store, takeById and sweep each run as one
\* step under the lock, and under every interleaving of OnPacket with the
\* worker's store and sweep no context is retired more than once: it is
\* returned by one takeById or counted by one sweep, never both, never twice.
C14_RetiredAtMostOnce == \A r \in Refs : retired[r] <= 1
C14_ReplyDuringCycle ==
    /\ pc = "sweep"
    /\ cycle.sent
    /\ retired[cycle.ref] = 1
    /\ StoredRefs # {}
    /\ ~panicked

\* C15 (construction failure abandons the cycle): a cycle of sendLoopPacket
\* in which a path selection, NewSURB or the packet construction failed hands
\* no packet to the connector.
C15_FailedStep ==
    /\ (pc = "send" /\ pc' = "sweep") => ~cycle'.sent
    /\ (pc = "packet" /\ pc' = "sweep" /\ cycle.surbErr) => ~cycle'.sent
C16_NowStep ==
    \A err \in BOOLEAN :
        workerNow(err) =>
            /\ (pc' = "send") <=> (timerFired /\ ~err /\ docCache # NoDoc
                                               /\ docCache.epoch = epoch)
            /\ (pc' = "sweep") <=> (~timerFired /\ ~err /\ docCache # NoDoc
                                                /\ docCache.epoch = epoch)
            /\ (err \/ docCache = NoDoc \/ docCache.epoch # epoch) =>
                   /\ wakeInterval' = "max"
                   /\ pc' = "rearm"
                   /\ UNCHANGED <<ctxs, surbStore, surbETAs, retired, nextRef, cycle>>
C16_IterationStep ==
    /\ (pc' = "send" /\ pc # "send") => (pc = "now" /\ timerFired)
    /\ (pc = "send" /\ pc' # pc) => (pc' \in {"store", "sweep"} /\ timerFired')
    /\ (pc = "store" /\ pc' # pc) => (pc' = "packet" /\ timerFired')
    /\ (pc = "packet" /\ pc' # pc) => (pc' = "sweep" /\ timerFired')
    /\ (pc = "sweep" /\ pc' # pc) => (pc' = "rearm" /\ wakeInterval' = "finite")
    /\ (pc = "rearm" /\ pc' # pc) => (pc' = "select" /\ ~timerFired')
    /\ (pc = "select" /\ pc' # pc) => (pc' \in {"now", "done"})
    /\ (pc = "select" /\ pc' = "now" /\ timerFired') => (timer = "fired")
    /\ (pc' = "sweep" /\ pc # "sweep") => (pc \in {"now", "send", "packet"})
C16_BuilderOnFire == [][C16_NowStep /\ C16_IterationStep]_vars
C16_BuiltThenSwept ==
    /\ pc = "rearm"
    /\ timerFired
    /\ wakeInterval = "finite"
    /\ surbStore # <<>>
    /\ ~panicked

\* C17 (acceptance of a document): the worker's receive of a document makes
\* it the cached document and adds one to the counter of its epoch exactly
\* when decoy traffic is enabled, PKI().Now() succeeds, the document's epoch
\* is the current epoch and the node is no provider; in every other case
\* ignoredPKIDocs goes up by exactly one, the cached document and the
\* per-epoch counters stay as they are, and the loop is back at its select.
C17_NewDocStep ==
    \A ent \in Entries, err \in BOOLEAN :
        workerNewDoc(ent, err) =>
            IF SendDecoyTraffic /\ ~err /\ ent.epoch = epoch /\ ~IsProvider
            THEN /\ docCache' = ent
                 /\ pkiDocs' = [pkiDocs EXCEPT ![epoch] = @ + 1]
                 /\ ignoredPKIDocs' = ignoredPKIDocs
            ELSE /\ ignoredPKIDocs' = ignoredPKIDocs + 1
                 /\ docCache' = docCache
                 /\ pkiDocs' = pkiDocs
                 /\ pc' = "select"
                 /\ ~panicked'
                 /\ UNCHANGED <<wakeInterval, timer>>
C17_AcceptanceIff == [][C17_NewDocStep]_vars
C17_IgnoredKeptCache ==
    /\ verdict \in {"stale", "ignored"}
    /\ ignoredPKIDocs = 1
    /\ docCache # NoDoc
    /\ pc = "select"

\* C18 (timer rearm discipline): under every interleaving of the timer's
\* expiry with documents and the halt, the stop/drain of decoy.go:234-236
\* never blocks (the rearm can always be taken), every rearm leaves the timer
\* armed with nothing in timer.C, and an expiry the select receives is the
\* expiry of the most recent arming.
C18_RearmStep ==
    /\ workerRearm => (timer' = "armed")
    /\ workerTimerFired => (timer = "fired" /\ timer' = "drained")
C18_NeverBlocks == (pc = "rearm" /\ ~panicked) => ENABLED workerRearm
C18_RearmDiscipline ==
    /\ [](C18_NeverBlocks /\ timer # "stale")
    /\ [][C18_RearmStep]_vars
C18_ExpiredUnreceived ==
    /\ pc = "rearm"
    /\ ~timerFired
    /\ timer = "fired"
    /\ verdict = "accepted"

\* C19 (a recorded token has its packet dispatched): when sendLoopPacket has
\* returned into the worker, a cycle that stored a context also handed its
\* packet to the connector; a cycle that handed over no packet stored none.
C19_RecordedImpliesSent ==
    (pc = "sweep" /\ cycle.ref # NilRef) => cycle.sent

\* a document for an epoch that is not the current one reaches the worker
\* (decoy traffic is enabled and PKI().Now() succeeds): it is ignored,
\* ignoredPKIDocs goes up by one, and docCache, the counters of accepted
\* documents, wakeInterval and the timer stay as they are
RejectStale ==
    \A ent \in Entries :
        (SendDecoyTraffic /\ ent.epoch # epoch /\ workerNewDoc(ent, FALSE)) =>
            /\ ignoredPKIDocs' = ignoredPKIDocs + 1
            /\ UNCHANGED <<docCache, pkiDocs, wakeInterval, timer, pc>>
\* the worker handles a timer fire and the last document it received since
\* the fire before was of the kind v
FireAfter(v) == pc = "now" /\ timerFired /\ verdict = v /\ pc' # pc

\* C8 as stated (Scenario B): a document for a non-current epoch is rejected
\* and counted as ignored, and the next timer fire sets wakeInterval to the
\* maximum and does not call sendDecoyPacket.
C8_AsStated ==
    [][/\ RejectStale
       /\ FireAfter("stale") => (pc' = "rearm" /\ wakeInterval' = "max")]_vars
\* C8 (Scenario B): a document for a non-current epoch is rejected and
\* counted as ignored, and docCache, wakeInterval and the timer stay as they
\* are; the next timer fire sets wakeInterval to the maximum and does not
\* call sendDecoyPacket unless PKI().Now() succeeds and docCache holds a
\* document accepted earlier for the epoch current at that fire, and then it
\* calls sendDecoyPacket.
C8_StaleDocument ==
    [][/\ RejectStale
       /\ \A err \in BOOLEAN :
            (FireAfter("stale") /\ workerNow(err)) =>
                IF ~err /\ docCache # NoDoc /\ docCache.epoch = epoch
                THEN pc' = "send" /\ UNCHANGED wakeInterval
                ELSE pc' = "rearm" /\ wakeInterval' = "max"]_vars
C8_Suspended ==
    /\ pc = "rearm"
    /\ timerFired
    /\ verdict = "stale"
    /\ wakeInterval = "max"

\* a document for the current epoch reaches the worker, decoy traffic is
\* enabled, the node is no provider and PKI().Now() succeeds: it becomes
\* docCache and the counter of that epoch goes up by exactly one
AcceptCurrent ==
    \A ent \in Entries :
        (/\ SendDecoyTraffic
         /\ ~IsProvider
         /\ ent.epoch = epoch
         /\ workerNewDoc(ent, FALSE)) =>
            /\ docCache' = ent
            /\ pkiDocs' = [pkiDocs EXCEPT ![epoch] = @ + 1]
            /\ UNCHANGED ignoredPKIDocs

\* C9 as stated (Scenario A): a document for the current epoch is accepted
\* and counted once, and the timer fire after it calls sendDecoyPacket.
C9_AsStated ==
    [][/\ AcceptCurrent
       /\ FireAfter("accepted") => pc' = "send"]_vars
\* C9 (Scenario A): a document for the current epoch is accepted and counted
\* once, and the timer fire after it calls sendDecoyPacket exactly when, at
\* that fire, PKI().Now() succeeds and still gives the epoch of the cached
\* document; otherwise the fire sets wakeInterval to the maximum.
C9_CurrentDocument ==
    [][/\ AcceptCurrent
       /\ \A err \in BOOLEAN :
            (FireAfter("accepted") /\ workerNow(err)) =>
                IF ~err /\ docCache.epoch = epoch
                THEN pc' = "send"
                ELSE pc' = "rearm" /\ wakeInterval' = "max"]_vars
C9_BuilderInvoked ==
    /\ pc = "send"
    /\ timerFired
    /\ verdict = "accepted"
    /\ pkiDocs[docCache.epoch] = 1

\* ====================================================== claims, SpecLive

\* C20 (every stored token is retired in the end): a context in surbStore
\* whose eta + slack has passed leaves the store, by a reply or by a sweep,
\* unless the worker is halted (or the process has died), also when the epoch
\* rolls over and no document of the new epoch is accepted.
C20_EventuallyRetired ==
    \A r \in Refs :
        (r \in StoredRefs /\ ctxs[r].eta + DecoySlack <= clock)
            ~> (r \notin StoredRefs \/ halt \/ panicked)

\* C21 (the token is retired before the decryption): OnPacket of a reply for
\* this recipient, with the ID base of this instance, an id that surbStore
\* holds and a payload that does not decrypt takes the context out of
\* surbStore and out of the groups of surbETAs, retires it, and counts the
\* packet as dropped exactly once; the id is then unknown to a later reply.
C21_DecryptFailStep ==
    \A pkt \in Packets :
        LET id == ParsedIDs[pkt.ID].id
        IN  (/\ pkt.recipient = recipient
             /\ ParsedIDs[pkt.ID].idBase = surbIDBase
             /\ id \in StoreIds
             /\ ~pkt.payloadOk
             /\ OnPacket(pkt)) =>
                /\ ~panicked'
                /\ id \notin DOMAIN surbStore'
                /\ surbStore[id] \notin IndexRefs'
                /\ retired' = [retired EXCEPT ![surbStore[id]] = @ + 1]
                /\ packetsDropped' = packetsDropped + 1
                /\ lastDrop' = "decrypt"
C21_RetiredBeforeDecrypt == [][C21_DecryptFailStep]_vars

\* C10 (shutdown): once HaltCh is closed the worker reaches its select,
\* takes the halt case and returns, and after the return it takes no step
\* any more.
C10_Shutdown ==
    /\ halt ~> (pc = "done")
    /\ [][pc = "done" => UNCHANGED <<workerVars, nextRef>>]_vars

====
